---- MODULE Spec2Model ----
(***************************************************************************)
(* Reconciliation of a DocumentDB cluster (library/docdb_cluster.py) and   *)
(* of a DocumentDB instance (library/docdb_instance.py) against a declared *)
(* desired state.  One behaviour is one task (one module, one parameter    *)
(* set) run up to MaxInvocations times against the same remote.            *)
(*                                                                         *)
(* Conventions.                                                            *)
(*  - A Python dict is a function whose DOMAIN is its key set.  A module   *)
(*    parameter whose value is None is a key that is absent from params,   *)
(*    so  params['x'] is not None  is  "x" \in DOMAIN params.              *)
(*  - A local variable that may be unbound, and the remote resource that   *)
(*    may be absent, is a sequence of length 0 or 1.                       *)
(*  - A Python list is a sequence; the tags dict is a sequence of          *)
(*    <<key, value>> pairs in insertion order, keys unique.                *)
(*  - botocore.exceptions.ClientError is an error code; the remote client  *)
(*    raises nothing else (spec 4.1), and the names time and boto that the *)
(*    modules take from their star imports are taken to resolve.           *)
(*  - The clock is read in seconds from the start of the invocation.  It   *)
(*    advances in time.sleep and in the describe calls of the poll loops,  *)
(*    the only places between two reads of time.time().                    *)
(***************************************************************************)
EXTENDS Integers, Sequences, FiniteSets, TLC

(* ------------------------------ bounds -------------------------------- *)
\* a task is run at most this many times in a row
MaxInvocations == 2
\* after this many polls of one loop the next sleep lasts until the deadline
MaxPolls == 3
\* seconds a slow describe call takes (a fast one takes 0)
SlowCall == 10

(* ------------------------- program constants -------------------------- *)
DefaultWaitTimeout == 600
RestoreWaitTimeout == 3600
PollInterval == 5
PasswordSettle == 120
DeleteSettle == 300
InstanceWaitTimeout == 1200

(* ------------------------------ helpers ------------------------------- *)
Empty == <<>>
Has(d, k) == k \in DOMAIN d
\* d with d[k] = v added or overwritten: d[k] = v on a dict
Put(d, k, v) == (k :> v) @@ d
\* {**d, **e}: e's entries win
Update(d, e) == e @@ d
Max(a, b) == IF a >= b THEN a ELSE b
Bound(x) == x # <<>>
Range(s) == {s[i] : i \in DOMAIN s}

\* [dict(Key=k, Value=v) for k, v in tags.items()]
TagList(tags) == [i \in DOMAIN tags |-> [Key |-> tags[i][1], Value |-> tags[i][2]]]
\* [t['Key'] for t in TagList]
TagKeys(taglist) == [i \in DOMAIN taglist |-> taglist[i].Key]

\* str.lower() on the status strings of the remote
Lower(s) ==
    CASE s = "Available" -> "available"
      [] s = "Creating" -> "creating"
      [] OTHER -> s

\* sorted(list): insertion sort on strings ordered by SortRank
SortRank(x) == CASE x = "sg1" -> 1 [] x = "sg2" -> 2 [] x = "sg3" -> 3 [] OTHER -> 4
RECURSIVE Insert(_, _)
Insert(x, s) ==
    IF s = <<>> THEN <<x>>
    ELSE IF SortRank(x) <= SortRank(Head(s)) THEN <<x>> \o s
    ELSE <<Head(s)>> \o Insert(x, Tail(s))
RECURSIVE sorted(_)
sorted(s) == IF s = <<>> THEN <<>> ELSE Insert(Head(s), sorted(Tail(s)))

(* --------------------------- input domains ---------------------------- *)
\* None or one of S
Opt(S) == {<<>>} \cup {<<v>> : v \in S}
\* the params dict of a record of optional values
Pack(o) == [k \in {k \in DOMAIN o : o[k] # <<>>} |-> o[k][1]]

TagsA == << <<"Name", "db">> >>
TagsB == << <<"Name", "old">>, <<"Env", "staging">> >>
WaitTimeouts == {0, 10}
Statuses == {"creating", "available"}

\* the cluster the remote holds before the first invocation, when it holds one
ObservedCluster ==
    [DBClusterIdentifier |-> "c1",
     Status |-> "available",
     DBClusterArn |-> "arn:cluster:c1",
     AvailabilityZones |-> <<"az1", "az2">>,
     EngineVersion |-> "3.6.0",
     Port |-> 27017,
     VpcSecurityGroups |-> << [VpcSecurityGroupId |-> "sg1", Status |-> "active"],
                              [VpcSecurityGroupId |-> "sg2", Status |-> "active"] >>,
     DBClusterParameterGroup |-> "default.docdb3.6",
     TagList |-> TagList(TagsB)]

\* state=present, wait=no: every attribute the differ or the create request reads
ClusterDiffParams ==
    {Pack(o) : o \in
        [cluster_id : {<<"c1">>},
         engine : {<<"docdb">>},
         state : {<<"present">>},
         subnet_group : {<<"subnet1">>},
         availability_zones : Opt({<<"az2", "az1">>}),
         engine_version : Opt({"4.0.0"}),
         port : Opt({27018}),
         vpc_security_group_ids : Opt({<<"sg2", "sg1">>, <<"sg1">>}),
         cluster_parameter_group : Opt({"pg1"}),
         tags : Opt({TagsA}),
         snapshot_arn : Opt({"arn:snap-1"}),
         master_username : Opt({"admin"}),
         master_password : Opt({"secret"}),
         wait : {<<FALSE>>},
         wait_timeout : {<<0>>}]}

\* state=present, wait=yes: the poll loop reads no attribute, so these tasks
\* vary the attributes that select the branch (unchanged, modify, create,
\* restore) and the timeout
ClusterWaitParams ==
    {Pack(o) : o \in
        [cluster_id : {<<"c1">>},
         engine : {<<"docdb">>},
         state : {<<"present">>},
         subnet_group : {<<"subnet1">>},
         engine_version : Opt({"4.0.0"}),
         cluster_parameter_group : Opt({"pg1"}),
         snapshot_arn : Opt({"arn:snap-1"}),
         master_password : Opt({"secret"}),
         wait : {<<TRUE>>},
         wait_timeout : {<<t>> : t \in WaitTimeouts}]}

ClusterPresentParams == ClusterDiffParams \cup ClusterWaitParams

\* state=absent, state=running and force_update_password: the parameters
\* these handlers read; the others are None
ClusterOtherParams ==
    {Pack(o) : o \in
        [cluster_id : {<<"c1">>},
         engine : {<<"docdb">>},
         state : {<<"absent">>},
         wait : {<<FALSE>>},
         wait_timeout : {<<0>>},
         final_db_cluster_snapshot_identifier : Opt({"final-1"})]}
    \cup
    {Pack(o) : o \in
        [cluster_id : {<<"c1">>},
         engine : {<<"docdb">>},
         state : {<<"running">>},
         wait : {<<FALSE>>},
         wait_timeout : {<<t>> : t \in WaitTimeouts}]}
    \cup
    {Pack(o) : o \in
        [cluster_id : {<<"c1">>},
         engine : {<<"docdb">>},
         state : {<<"present">>, <<"absent">>, <<"running">>},
         force_update_password : {<<TRUE>>},
         master_password : {<<"secret">>},
         snapshot_arn : Opt({"arn:snap-1"}),
         wait : {<<FALSE>>},
         wait_timeout : {<<t>> : t \in WaitTimeouts}]}

ClusterParams == ClusterPresentParams \cup ClusterOtherParams

\* the instance the remote holds before the first invocation, when it holds one
ObservedInstance ==
    [DBInstanceIdentifier |-> "i1",
     DBInstanceStatus |-> "available",
     DBInstanceArn |-> "arn:db:i1",
     DBInstanceClass |-> "db.r5.large",
     DBClusterIdentifier |-> "c1",
     Engine |-> "docdb",
     AvailabilityZone |-> "az1",
     PreferredMaintenanceWindow |-> "mon:22:00-mon:23:15",
     TagList |-> TagList(TagsB)]

\* state=present, wait=no: the attributes of the create request and the tags
\* (None, the default {}, a mapping that differs from the current tags and
\* one that equals them)
InstanceTagParams ==
    {Pack(o) : o \in
        [instance_id : {<<"i1">>},
         engine : {<<"docdb">>},
         state : {<<"present">>},
         cluster_id : Opt({"c1"}),
         instance_type : Opt({"db.r5.large"}),
         availability_zone : Opt({"az2"}),
         preferred_maintenance_window : Opt({"sun:01:00-sun:02:00"}),
         tags : Opt({<<>>, TagsA, TagsB}),
         wait : {<<FALSE>>},
         wait_timeout : {<<InstanceWaitTimeout>>}]}

\* state=present, wait=yes
InstanceWaitParams ==
    {Pack(o) : o \in
        [instance_id : {<<"i1">>},
         engine : {<<"docdb">>},
         state : {<<"present">>},
         cluster_id : {<<"c1">>},
         instance_type : {<<"db.r5.large">>},
         tags : Opt({TagsA}),
         wait : {<<TRUE>>},
         wait_timeout : {<<t>> : t \in WaitTimeouts \cup {InstanceWaitTimeout}}]}

\* state=absent
InstanceAbsentParams ==
    {Pack(o) : o \in
        [instance_id : {<<"i1">>},
         engine : {<<"docdb">>},
         state : {<<"absent">>},
         tags : {<< <<>> >>},
         wait : {<<FALSE>>},
         wait_timeout : {<<InstanceWaitTimeout>>}]}

InstanceParams == InstanceTagParams \cup InstanceWaitParams \cup InstanceAbsentParams


(* ------------------------------- state -------------------------------- *)
VARIABLES
    module,        \* "cluster" | "instance": the module the task names
    params,        \* module.params: the desired state
    remote,        \* the resource as the remote holds it: <<>> or <<record>>
    pc,            \* the position of the invocation
    api_args,      \* the local api_args
    check,         \* the local check_cluster / check_instance: <<>> or <<response>>
    result,        \* the local result: <<>> or <<value>>
    tags_result,   \* the local tags_result: <<>> or <<response>>
    wait_timeout,  \* params['wait_timeout'], which the handlers overwrite
    deadline,      \* the local wait_timeout: time.time() + params['wait_timeout']
    ready,         \* the local ready
    now,           \* time.time()
    polls,         \* describe calls issued by the poll loop of this invocation
    calls,         \* the remote calls of this invocation other than describe, in order
    found,         \* what the first describe of this invocation said
    outcome,       \* "none" | "exit_json" | "fail_json" | "exception"
    report,        \* the keyword arguments of exit_json / fail_json
    last_poll,     \* what the last describe of a poll loop said: "none" | "ok" | error code
    inv,           \* the number of the invocation, from 1
    prev           \* calls and outcome of the invocation before this one

vars == <<module, params, remote, pc, api_args, check, result, tags_result, wait_timeout,
          deadline, ready, now, polls, calls, found, outcome, report, last_poll, inv, prev>>

\* the locals and the clock of a fresh process
Fresh ==
    /\ pc = "main"
    /\ api_args = Empty
    /\ check = <<>>
    /\ result = <<>>
    /\ tags_result = <<>>
    /\ wait_timeout = params.wait_timeout
    /\ deadline = 0
    /\ ready = FALSE
    /\ now = 0
    /\ polls = 0
    /\ calls = <<>>
    /\ found = "none"
    /\ outcome = "none"
    /\ report = Empty
    /\ last_poll = "none"

Init ==
    /\ \/ /\ module = "cluster"
          /\ params \in ClusterParams
          /\ remote \in {<<>>, <<ObservedCluster>>}
       \/ /\ module = "instance"
          /\ params \in InstanceParams
          /\ remote \in {<<>>, <<ObservedInstance>>}
    /\ inv = 1
    /\ prev = Empty
    /\ Fresh

(* ------------------------ the remote client --------------------------- *)
\* e.response['Error']['Code'] of a botocore.exceptions.ClientError
NotFoundCode == IF module = "cluster" THEN "DBClusterNotFoundFault" ELSE "DBInstanceNotFound"
OtherCodes == {"Throttling", "InvalidParameterValue"}
ErrorCodes == {NotFoundCode} \cup OtherCodes

\* what a call on the resource can answer: "ok" when the remote holds it; an
\* error code otherwise or instead (not-found on a resource the remote held
\* means it was deleted concurrently)
CallOutcomes == (IF Bound(remote) THEN {"ok"} ELSE {}) \cup ErrorCodes
\* the first describe says not-found exactly when the remote holds no resource
DescribeOutcomes ==
    IF Bound(remote) THEN {"ok"} \cup OtherCodes ELSE ErrorCodes
\* a create or restore call succeeds only when the remote holds no resource
ProvisionOutcomes == (IF Bound(remote) THEN {} ELSE {"ok"}) \cup OtherCodes
RemoteAfter(o) == IF o = NotFoundCode THEN <<>> ELSE remote

Call(op, args) == [op |-> op, args |-> args]

\* the cluster the remote holds after create_db_cluster(**args) or
\* restore_db_cluster_from_snapshot(**args)
RemoteCreateCluster(args) ==
    [DBClusterIdentifier |-> args.DBClusterIdentifier,
     Status |-> "creating",
     DBClusterArn |-> "arn:cluster:c1",
     AvailabilityZones |->
        IF Has(args, "AvailabilityZones") THEN args.AvailabilityZones ELSE <<"az1", "az2">>,
     EngineVersion |->
        IF Has(args, "EngineVersion") THEN args.EngineVersion ELSE "3.6.0",
     Port |-> IF Has(args, "Port") THEN args.Port ELSE 27017,
     VpcSecurityGroups |->
        IF Has(args, "VpcSecurityGroupIds")
        THEN [i \in DOMAIN args.VpcSecurityGroupIds |->
                [VpcSecurityGroupId |-> args.VpcSecurityGroupIds[i], Status |-> "active"]]
        ELSE << [VpcSecurityGroupId |-> "sg3", Status |-> "active"] >>,
     DBClusterParameterGroup |->
        IF Has(args, "DBClusterParameterGroupName") THEN args.DBClusterParameterGroupName
        ELSE "default.docdb3.6",
     TagList |-> IF Has(args, "Tags") THEN args.Tags ELSE <<>>]

\* the cluster c after modify_db_cluster(**args)
RemoteModifyCluster(c, args) ==
    [c EXCEPT
        !.AvailabilityZones =
            IF Has(args, "AvailabilityZones") THEN args.AvailabilityZones ELSE @,
        !.EngineVersion = IF Has(args, "EngineVersion") THEN args.EngineVersion ELSE @,
        !.Port = IF Has(args, "Port") THEN args.Port ELSE @,
        !.VpcSecurityGroups =
            IF Has(args, "VpcSecurityGroupIds")
            THEN [i \in DOMAIN args.VpcSecurityGroupIds |->
                    [VpcSecurityGroupId |-> args.VpcSecurityGroupIds[i], Status |-> "active"]]
            ELSE @,
        !.DBClusterParameterGroup =
            IF Has(args, "DBClusterParameterGroupName") THEN args.DBClusterParameterGroupName
            ELSE @]

\* seconds a describe call of a poll loop takes
CallDurations == {0, SlowCall}
\* what a describe call of a poll loop answers: the status the resource has
\* reached by then, or an error
PollOutcomes ==
    (IF Bound(remote) THEN {<<"ok", s>> : s \in Statuses} ELSE {})
    \cup {<<"error", c>> : c \in ErrorCodes}
\* seconds time.sleep(PollInterval) takes after the n-th poll, the call having
\* returned at t: the interval, and from the MaxPolls-th poll on the rest of
\* the time to the deadline
SleepAfter(t, n) ==
    IF n < MaxPolls THEN PollInterval ELSE Max(PollInterval, deadline - t)

(* --------------------------- terminal steps --------------------------- *)
exit_json(kw) == outcome' = "exit_json" /\ report' = kw /\ pc' = "done"

\* a failure report that carries the message only
fail_json_plain(kw) == outcome' = "fail_json" /\ report' = [msg |-> kw.msg] /\ pc' = "done"

fail_json(kw) == outcome' = "fail_json" /\ report' = kw /\ pc' = "done"
\* an exception no handler catches ends the process
raise(e) == outcome' = "exception" /\ report' = [exception |-> e] /\ pc' = "done"

(* ----------------------- docdb_cluster.py: main ----------------------- *)
\* a dispatch that looks at state before force_update_password
main_cluster_state_first ==
    /\ module = "cluster"
    /\ pc = "main"
    /\ pc' = IF params.state = "present" THEN "create_cluster"
             ELSE IF params.state = "absent" THEN "terminate_cluster"
             ELSE IF Has(params, "force_update_password") /\ params.force_update_password = TRUE
             THEN "update_password"
             ELSE "start_cluster"
    /\ UNCHANGED <<module, params, remote, api_args, check, result, tags_result,
                   wait_timeout, deadline, ready, now, polls, calls, found, outcome,
                   report, inv, prev>>
    /\ UNCHANGED last_poll

main_cluster ==
    /\ module = "cluster"
    /\ pc = "main"
    /\ pc' = IF Has(params, "force_update_password") /\ params.force_update_password = TRUE
             THEN "update_password"
             ELSE IF params.state = "present" THEN "create_cluster"
             ELSE IF params.state = "absent" THEN "terminate_cluster"
             ELSE "start_cluster"
    /\ UNCHANGED <<module, params, remote, api_args, check, result, wait_timeout,
                   deadline, ready, now, polls, calls, found, outcome, report, inv, prev>>
    /\ UNCHANGED tags_result
    /\ UNCHANGED last_poll

(* ------------------ docdb_cluster.py: update_password ----------------- *)
update_password ==
    /\ pc = "update_password"
    /\ LET args == [DBClusterIdentifier |-> params.cluster_id,
                    ApplyImmediately |-> TRUE,
                    MasterUserPassword |-> params.master_password]
       IN /\ calls' = Append(calls, Call("modify_db_cluster", args))
          /\ \E o \in CallOutcomes :
                /\ remote' = RemoteAfter(o)
                /\ IF o = "ok"
                   THEN /\ result' = <<[DBCluster |-> remote[1]]>>
                        /\ now' = now + PasswordSettle
                        /\ wait_timeout' =
                              IF wait_timeout = 0 THEN DefaultWaitTimeout ELSE wait_timeout
                        /\ deadline' = now' + wait_timeout'
                        /\ ready' = FALSE
                        /\ pc' = "update_password_loop"
                        /\ UNCHANGED <<outcome, report>>
                   ELSE /\ raise(o)
                        /\ UNCHANGED <<result, now, wait_timeout, deadline, ready>>
    /\ UNCHANGED <<module, params, api_args, check, polls, found, inv, prev>>
    /\ UNCHANGED tags_result
    /\ UNCHANGED last_poll

\* one turn of the loop: describe, test the status, sleep when not ready
update_password_poll ==
    /\ pc = "update_password_loop"
    /\ ~ready /\ deadline > now
    /\ \E d \in CallDurations, o \in PollOutcomes :
          LET t == now + d
              isready == o[1] = "ok" /\ o[2] = "available"
          IN /\ polls' = polls + 1
             /\ last_poll' = IF o[1] = "ok" THEN "ok" ELSE o[2]
             /\ check' = IF o[1] = "ok"
                         THEN <<[DBClusters |-> <<[remote[1] EXCEPT !.Status = o[2]]>>]>>
                         ELSE check
             /\ remote' = IF o[1] = "ok" THEN <<[remote[1] EXCEPT !.Status = o[2]]>>
                          ELSE remote
             /\ result' = IF o[1] = "error" THEN <<[exception |-> o[2]]>> ELSE result
             /\ ready' = isready
             /\ now' = IF isready THEN t ELSE t + SleepAfter(t, polls + 1)
    /\ UNCHANGED <<module, params, pc, api_args, wait_timeout, deadline, calls,
                   found, outcome, report, inv, prev>>
    /\ UNCHANGED tags_result

update_password_exit ==
    /\ pc = "update_password_loop"
    /\ ~(~ready /\ deadline > now)
    /\ exit_json([result |-> result[1]])
    /\ UNCHANGED <<module, params, remote, api_args, check, result, wait_timeout,
                   deadline, ready, now, polls, calls, found, inv, prev>>
    /\ UNCHANGED tags_result
    /\ UNCHANGED last_poll

(* -------------------- docdb_cluster.py: start_cluster ----------------- *)
start_cluster ==
    /\ pc = "start_cluster"
    /\ calls' = Append(calls, Call("start_db_cluster",
                                   [DBClusterIdentifier |-> params.cluster_id]))
    /\ \E o \in CallOutcomes :
          /\ remote' = RemoteAfter(o)
          /\ IF o = "ok"
             THEN /\ result' = <<[DBCluster |-> remote[1]]>>
                  /\ wait_timeout' =
                        IF wait_timeout = 0 THEN DefaultWaitTimeout ELSE wait_timeout
                  /\ deadline' = now + wait_timeout'
                  /\ ready' = FALSE
                  /\ pc' = "start_cluster_loop"
                  /\ UNCHANGED <<outcome, report>>
             ELSE /\ raise(o)
                  /\ UNCHANGED <<result, wait_timeout, deadline, ready>>
    /\ UNCHANGED <<module, params, api_args, check, now, polls, found, inv, prev>>
    /\ UNCHANGED tags_result
    /\ UNCHANGED last_poll

start_cluster_poll ==
    /\ pc = "start_cluster_loop"
    /\ ~ready /\ deadline > now
    /\ \E d \in CallDurations, o \in PollOutcomes :
          LET t == now + d
              isready == o[1] = "ok" /\ o[2] = "available"
          IN /\ polls' = polls + 1
             /\ last_poll' = IF o[1] = "ok" THEN "ok" ELSE o[2]
             /\ check' = IF o[1] = "ok"
                         THEN <<[DBClusters |-> <<[remote[1] EXCEPT !.Status = o[2]]>>]>>
                         ELSE check
             /\ remote' = IF o[1] = "ok" THEN <<[remote[1] EXCEPT !.Status = o[2]]>>
                          ELSE remote
             /\ result' = IF o[1] = "error" THEN <<[exception |-> o[2]]>> ELSE result
             /\ ready' = isready
             /\ now' = IF isready THEN t ELSE t + SleepAfter(t, polls + 1)
    /\ UNCHANGED <<module, params, pc, api_args, wait_timeout, deadline, calls,
                   found, outcome, report, inv, prev>>
    /\ UNCHANGED tags_result

start_cluster_exit ==
    /\ pc = "start_cluster_loop"
    /\ ~(~ready /\ deadline > now)
    /\ exit_json([result |-> result[1]])
    /\ UNCHANGED <<module, params, remote, api_args, check, result, wait_timeout,
                   deadline, ready, now, polls, calls, found, inv, prev>>
    /\ UNCHANGED tags_result
    /\ UNCHANGED last_poll

(* ------------------ docdb_cluster.py: terminate_cluster --------------- *)
\* a handler that reports the ClientError instead
terminate_cluster_error_strict ==
    /\ fail_json([msg |-> "ClientError"])
    /\ UNCHANGED result

\* except botocore.exceptions.ClientError: result = True, then exit_json
terminate_cluster_error ==
    /\ result' = <<TRUE>>
    /\ exit_json([result |-> TRUE])

terminate_cluster ==
    /\ pc = "terminate_cluster"
    /\ \E o \in DescribeOutcomes :
          /\ found' = IF o = "ok" THEN "found"
                      ELSE IF o = NotFoundCode THEN "notfound" ELSE "error"
          /\ IF o = "ok"
             THEN /\ check' = <<[DBClusters |-> <<remote[1]>>]>>
                  /\ pc' = "terminate_cluster_delete"
                  /\ UNCHANGED <<result, outcome, report>>
             ELSE /\ terminate_cluster_error
                  /\ UNCHANGED check
    /\ UNCHANGED <<module, params, remote, api_args, wait_timeout, deadline, ready,
                   now, polls, calls, inv, prev>>
    /\ UNCHANGED tags_result
    /\ UNCHANGED last_poll

delete_args(p) ==
    IF Has(p, "final_db_cluster_snapshot_identifier")
    THEN [SkipFinalSnapshot |-> FALSE,
          FinalDBSnapshotIdentifier |-> p.final_db_cluster_snapshot_identifier]
    ELSE [SkipFinalSnapshot |-> TRUE]

terminate_cluster_delete ==
    /\ pc = "terminate_cluster_delete"
    /\ IF Len(check[1].DBClusters) = 1
       THEN /\ calls' = Append(calls, Call("delete_db_cluster",
                    Put(delete_args(params), "DBClusterIdentifier", params.cluster_id)))
            /\ \E o \in CallOutcomes :
                  IF o = "ok"
                  THEN /\ remote' = <<>>
                       /\ result' = <<[DBCluster |-> [remote[1] EXCEPT !.Status = "deleting"]]>>
                       /\ now' = now + DeleteSettle
                       /\ exit_json([result |-> result'[1]])
                  ELSE /\ remote' = RemoteAfter(o)
                       /\ terminate_cluster_error
                       /\ UNCHANGED now
       ELSE \* result was never bound: UnboundLocalError at exit_json(result=result)
            /\ raise("UnboundLocalError")
            /\ UNCHANGED <<calls, remote, result, now>>
    /\ UNCHANGED <<module, params, api_args, check, wait_timeout, deadline, ready,
                   polls, found, inv, prev>>
    /\ UNCHANGED tags_result
    /\ UNCHANGED last_poll

(* ------------------- docdb_cluster.py: create_cluster ----------------- *)
\* the api_args built before the describe call
cluster_api_args(p) ==
    LET keys == [AvailabilityZones |-> "availability_zones",
                 EngineVersion |-> "engine_version",
                 Port |-> "port",
                 VpcSecurityGroupIds |-> "vpc_security_group_ids"]
        plain == [k \in {a \in DOMAIN keys : Has(p, keys[a])} |-> p[keys[k]]]
    IN IF Has(p, "tags") THEN Put(plain, "Tags", TagList(p.tags)) ELSE plain

\* cluster['DBClusterParameterGroupName'] = cluster['DBClusterParameterGroup']
WithParameterGroupName(cluster) ==
    Put(cluster, "DBClusterParameterGroupName", cluster.DBClusterParameterGroup)

\* a differ that compares the tags like any other attribute
Differs_with_tags(opt, val, cluster) ==
    IF opt = "VpcSecurityGroupIds"
    THEN sorted([i \in DOMAIN cluster.VpcSecurityGroups |->
                    cluster.VpcSecurityGroups[i].VpcSecurityGroupId]) # sorted(val)
    ELSE IF opt = "Tags" THEN cluster.TagList # val
    ELSE cluster[opt] # val

\* a differ that compares the security groups as ordered lists
Differs_ordered(opt, val, cluster) ==
    IF opt = "VpcSecurityGroupIds"
    THEN [i \in DOMAIN cluster.VpcSecurityGroups |->
             cluster.VpcSecurityGroups[i].VpcSecurityGroupId] # val
    ELSE opt # "Tags" /\ cluster[opt] # val

\* the test of the loop over api_args.items(): opt goes into modify_args
Differs(opt, val, cluster) ==
    IF opt = "VpcSecurityGroupIds"
    THEN sorted([i \in DOMAIN cluster.VpcSecurityGroups |->
                    cluster.VpcSecurityGroups[i].VpcSecurityGroupId]) # sorted(val)
    ELSE opt # "Tags" /\ cluster[opt] # val

\* a plan that also takes the master password whenever the task supplies one
modify_args_with_credentials(args, cluster) ==
    LET plan == [opt \in {o \in DOMAIN args : Differs(o, args[o], cluster)} |-> args[opt]]
    IN IF Has(params, "master_password")
       THEN Put(plan, "MasterUserPassword", params.master_password)
       ELSE plan

modify_args(args, cluster) ==
    [opt \in {o \in DOMAIN args : Differs(o, args[o], cluster)} |-> args[opt]]

\* the entries the not-found handler adds before it creates or restores
not_found_args(args, p) ==
    LET keys == [DBClusterIdentifier |-> "cluster_id",
                 Engine |-> "engine",
                 DBSubnetGroupName |-> "subnet_group"]
    IN Update(args, [k \in {a \in DOMAIN keys : Has(p, keys[a])} |-> p[keys[k]]])

\* the create branch: the credentials, when supplied
create_args(args, p) ==
    LET keys == [MasterUsername |-> "master_username",
                 MasterUserPassword |-> "master_password"]
    IN Update(args, [k \in {a \in DOMAIN keys : Has(p, keys[a])} |-> p[keys[k]]])

\* a restore request that also takes the credentials of the create branch
restore_args_with_credentials(args, p) ==
    create_args(Put(args, "SnapshotIdentifier", p.snapshot_arn), p)

\* the restore branch: the snapshot
restore_args(args, p) == Put(args, "SnapshotIdentifier", p.snapshot_arn)

\* a wait_timeout that the branch default always replaces
timeout_or_default(default) == default

\* the default wait_timeout of a branch replaces a wait_timeout of 0
timeout_or(default) == IF wait_timeout = 0 THEN default ELSE wait_timeout

create_cluster ==
    /\ pc = "create_cluster"
    /\ \E o \in DescribeOutcomes :
          /\ found' = IF o = "ok" THEN "found"
                      ELSE IF o = NotFoundCode THEN "notfound" ELSE "error"
          /\ IF o = "ok"
             THEN /\ check' = <<[DBClusters |-> <<remote[1]>>]>>
                  /\ api_args' = cluster_api_args(params)
                  /\ pc' = "create_cluster_modify"
                  /\ UNCHANGED <<outcome, report>>
             ELSE IF o = "DBClusterNotFoundFault"
             THEN /\ api_args' = not_found_args(cluster_api_args(params), params)
                  /\ pc' = "create_cluster_provision"
                  /\ UNCHANGED <<check, outcome, report>>
             ELSE /\ api_args' = cluster_api_args(params)
                  /\ fail_json([msg |-> o, api_args |-> api_args'])
                  /\ UNCHANGED check
    /\ UNCHANGED <<module, params, remote, result, wait_timeout, deadline, ready,
                   now, polls, calls, inv, prev>>
    /\ UNCHANGED tags_result
    /\ UNCHANGED last_poll

\* the cluster exists: diff, then modify or return the cluster
create_cluster_modify ==
    /\ pc = "create_cluster_modify"
    /\ IF Len(check[1].DBClusters) # 1
       THEN /\ fail_json([msg |-> "Failed to retrieve details for existing cluster"])
            /\ UNCHANGED <<api_args, check, result, wait_timeout, calls, remote>>
       ELSE LET cluster == WithParameterGroupName(check[1].DBClusters[1])
                args == IF Has(params, "cluster_parameter_group")
                        THEN Put(api_args, "DBClusterParameterGroupName",
                                 params.cluster_parameter_group)
                        ELSE api_args
                margs == modify_args(args, cluster)
            IN /\ check' = <<[DBClusters |-> <<cluster>>]>>
               /\ IF margs # Empty
                  THEN /\ calls' = Append(calls, Call("modify_db_cluster",
                                Put(margs, "DBClusterIdentifier", params.cluster_id)))
                       /\ \E o \in CallOutcomes :
                             /\ IF o = "ok"
                                THEN /\ remote' = <<RemoteModifyCluster(remote[1], margs)>>
                                     /\ result' = <<[DBCluster |-> remote'[1]]>>
                                     /\ wait_timeout' = timeout_or(DefaultWaitTimeout)
                                     /\ api_args' = args
                                     /\ pc' = "create_cluster_wait"
                                     /\ UNCHANGED <<outcome, report>>
                                ELSE IF o = "DBClusterNotFoundFault"
                                THEN /\ remote' = <<>>
                                     /\ api_args' = not_found_args(args, params)
                                     /\ pc' = "create_cluster_provision"
                                     /\ UNCHANGED <<result, wait_timeout, outcome, report>>
                                ELSE /\ api_args' = args
                                     /\ fail_json([msg |-> o, api_args |-> args])
                                     /\ UNCHANGED <<remote, result, wait_timeout>>
                  ELSE /\ result' = <<[DBCluster |-> cluster]>>
                       /\ wait_timeout' = timeout_or(DefaultWaitTimeout)
                       /\ api_args' = args
                       /\ pc' = "create_cluster_wait"
                       /\ UNCHANGED <<calls, remote, outcome, report>>
    /\ UNCHANGED <<module, params, deadline, ready, now, polls, found, inv, prev>>
    /\ UNCHANGED tags_result
    /\ UNCHANGED last_poll

\* the cluster does not exist: restore it from the snapshot or create it
create_cluster_provision ==
    /\ pc = "create_cluster_provision"
    /\ LET restore == Has(params, "snapshot_arn")
           args == IF restore THEN restore_args(api_args, params)
                   ELSE create_args(api_args, params)
           op == IF restore THEN "restore_db_cluster_from_snapshot" ELSE "create_db_cluster"
       IN /\ api_args' = args
          /\ calls' = Append(calls, Call(op, args))
          /\ \E o \in ProvisionOutcomes :
                IF o = "ok"
                THEN /\ remote' = <<RemoteCreateCluster(args)>>
                     /\ result' = <<[DBCluster |-> remote'[1]]>>
                     /\ wait_timeout' = timeout_or(IF restore THEN RestoreWaitTimeout
                                                   ELSE DefaultWaitTimeout)
                     /\ pc' = "create_cluster_wait"
                     /\ UNCHANGED <<outcome, report>>
                ELSE /\ fail_json([msg |-> o, api_args |-> args])
                     /\ UNCHANGED <<remote, result, wait_timeout>>
    /\ UNCHANGED <<module, params, check, deadline, ready, now, polls, found, inv, prev>>
    /\ UNCHANGED tags_result
    /\ UNCHANGED last_poll

\* a wait that is entered whatever params['wait'] says
create_cluster_wait_always ==
    /\ pc = "create_cluster_wait"
    /\ deadline' = now + wait_timeout
    /\ ready' = FALSE
    /\ pc' = "create_cluster_loop"
    /\ UNCHANGED <<outcome, report>>
    /\ UNCHANGED <<module, params, remote, api_args, check, result, wait_timeout,
                   now, polls, calls, found, inv, prev>>
    /\ UNCHANGED tags_result
    /\ UNCHANGED last_poll

\* if params['wait']: the deadline is computed once; otherwise exit
create_cluster_wait ==
    /\ pc = "create_cluster_wait"
    /\ IF params.wait
       THEN /\ deadline' = now + wait_timeout
            /\ ready' = FALSE
            /\ pc' = "create_cluster_loop"
            /\ UNCHANGED <<outcome, report>>
       ELSE /\ exit_json([result |-> result[1]])
            /\ UNCHANGED <<deadline, ready>>
    /\ UNCHANGED <<module, params, remote, api_args, check, result, wait_timeout,
                   now, polls, calls, found, inv, prev>>
    /\ UNCHANGED tags_result
    /\ UNCHANGED last_poll

\* one turn of the loop: describe, test the status, sleep when not ready
create_cluster_poll ==
    /\ pc = "create_cluster_loop"
    /\ ~ready /\ deadline > now
    /\ \E d \in CallDurations, o \in PollOutcomes :
          LET t == now + d
              resp == [DBClusters |-> <<[remote[1] EXCEPT !.Status = o[2]]>>]
              isready == /\ o[1] = "ok"
                         /\ Len(resp.DBClusters) = 1
                         /\ Lower(resp.DBClusters[1].Status) = "available"
          IN /\ polls' = polls + 1
             /\ last_poll' = IF o[1] = "ok" THEN "ok" ELSE o[2]
             /\ check' = IF o[1] = "ok" THEN <<resp>> ELSE check
             /\ remote' = IF o[1] = "ok" THEN <<resp.DBClusters[1]>> ELSE remote
             /\ ready' = isready
             /\ now' = IF isready THEN t ELSE t + SleepAfter(t, polls + 1)
    /\ UNCHANGED <<module, params, pc, api_args, result, wait_timeout, deadline,
                   calls, found, outcome, report, inv, prev>>
    /\ UNCHANGED tags_result

\* a loop exit that is taken only once the status was seen available
create_cluster_exit_when_ready ==
    /\ pc = "create_cluster_loop"
    /\ ready
    /\ exit_json([result |-> result[1]])
    /\ UNCHANGED <<module, params, remote, api_args, check, result, wait_timeout,
                   deadline, ready, now, polls, calls, found, inv, prev>>
    /\ UNCHANGED tags_result
    /\ UNCHANGED last_poll

\* after the loop: the timeout test, then exit
create_cluster_exit ==
    /\ pc = "create_cluster_loop"
    /\ ~(~ready /\ deadline > now)
    /\ IF deadline <= now
       THEN IF ~Bound(check)
            THEN raise("UnboundLocalError")
            ELSE fail_json([msg |-> "Timed out waiting for DB cluster to become available",
                            cluster |-> IF Len(check[1].DBClusters) = 1
                                        THEN <<check[1].DBClusters[1]>> ELSE <<>>])
       ELSE exit_json([result |-> result[1]])
    /\ UNCHANGED <<module, params, remote, api_args, check, result, wait_timeout,
                   deadline, ready, now, polls, calls, found, inv, prev>>
    /\ UNCHANGED tags_result
    /\ UNCHANGED last_poll

(* ---------------------- docdb_instance.py: main ----------------------- *)
main_instance ==
    /\ module = "instance"
    /\ pc = "main"
    /\ pc' = IF params.state = "present" THEN "create_db_instance"
             ELSE "terminate_db_instance"
    /\ UNCHANGED <<module, params, remote, api_args, check, result, tags_result,
                   wait_timeout, deadline, ready, now, polls, calls, found, outcome,
                   report, inv, prev>>
    /\ UNCHANGED last_poll

(* --------------- docdb_instance.py: terminate_db_instance ------------- *)

\* a handler that reports the ClientError as a failure instead
terminate_db_instance_error_strict ==
    /\ fail_json([msg |-> "ClientError"])
    /\ UNCHANGED result

\* except botocore.exceptions.ClientError: result = True, then exit_json
terminate_db_instance_error ==
    /\ result' = <<TRUE>>
    /\ exit_json([result |-> TRUE])

terminate_db_instance ==
    /\ pc = "terminate_db_instance"
    /\ \E o \in DescribeOutcomes :
          /\ found' = IF o = "ok" THEN "found"
                      ELSE IF o = NotFoundCode THEN "notfound" ELSE "error"
          /\ IF o = "ok"
             THEN /\ check' = <<[DBInstances |-> <<remote[1]>>]>>
                  /\ pc' = "terminate_db_instance_delete"
                  /\ UNCHANGED <<result, outcome, report>>
             ELSE /\ terminate_db_instance_error
                  /\ UNCHANGED check
    /\ UNCHANGED <<module, params, remote, api_args, tags_result, wait_timeout,
                   deadline, ready, now, polls, calls, inv, prev>>
    /\ UNCHANGED last_poll

terminate_db_instance_delete ==
    /\ pc = "terminate_db_instance_delete"
    /\ IF Len(check[1].DBInstances) = 1
       THEN /\ calls' = Append(calls, Call("delete_db_instance",
                                [DBInstanceIdentifier |-> params.instance_id]))
            /\ \E o \in CallOutcomes :
                  IF o = "ok"
                  THEN /\ remote' = <<[remote[1] EXCEPT !.DBInstanceStatus = "deleting"]>>
                       /\ result' = <<[DBInstance |-> remote'[1]]>>
                       /\ pc' = "terminate_db_instance_waiter"
                       /\ UNCHANGED <<outcome, report>>
                  ELSE /\ remote' = RemoteAfter(o)
                       /\ terminate_db_instance_error
       ELSE \* result was never bound: UnboundLocalError at exit_json(result=result)
            /\ raise("UnboundLocalError")
            /\ UNCHANGED <<calls, remote, result>>
    /\ UNCHANGED <<module, params, api_args, check, tags_result, wait_timeout,
                   deadline, ready, now, polls, found, inv, prev>>
    /\ UNCHANGED last_poll

\* client.get_waiter('db_instance_deleted').wait(...): returns once the
\* instance is gone, or gives up with a WaiterError, which is no ClientError
terminate_db_instance_waiter ==
    /\ pc = "terminate_db_instance_waiter"
    /\ \/ /\ remote' = <<>>
          /\ exit_json([result |-> result[1]])
       \/ /\ raise("WaiterError")
          /\ UNCHANGED remote
    /\ UNCHANGED <<module, params, api_args, check, result, tags_result, wait_timeout,
                   deadline, ready, now, polls, calls, found, inv, prev>>
    /\ UNCHANGED last_poll

(* ---------------- docdb_instance.py: create_db_instance --------------- *)
\* the api_args built before the describe call
instance_api_args(p) ==
    LET keys == [DBInstanceClass |-> "instance_type",
                 AvailabilityZone |-> "availability_zone",
                 PreferredMaintenanceWindow |-> "preferred_maintenance_window"]
    IN [k \in {a \in DOMAIN keys : Has(p, keys[a])} |-> p[keys[k]]]

\* the local tags: None (<<>>) or <<list of Key/Value dicts>>
instance_tags(p) == IF Has(p, "tags") THEN <<TagList(p.tags)>> ELSE <<>>

\* the entries the not-found handler adds before it creates the instance
instance_not_found_args(args, p) ==
    LET keys == [DBClusterIdentifier |-> "cluster_id", Engine |-> "engine"]
        a1 == Put(args, "DBInstanceIdentifier", p.instance_id)
        a2 == Update(a1, [k \in {a \in DOMAIN keys : Has(p, keys[a])} |-> p[keys[k]]])
    IN IF Bound(instance_tags(p)) THEN Put(a2, "Tags", instance_tags(p)[1]) ELSE a2

\* the instance the remote holds after create_db_instance(**args)
RemoteCreateInstance(args) ==
    [DBInstanceIdentifier |-> args.DBInstanceIdentifier,
     DBInstanceStatus |-> "creating",
     DBInstanceArn |-> "arn:db:i1",
     DBInstanceClass |->
        IF Has(args, "DBInstanceClass") THEN args.DBInstanceClass ELSE "db.r5.large",
     DBClusterIdentifier |->
        IF Has(args, "DBClusterIdentifier") THEN args.DBClusterIdentifier ELSE "c1",
     Engine |-> IF Has(args, "Engine") THEN args.Engine ELSE "docdb",
     AvailabilityZone |->
        IF Has(args, "AvailabilityZone") THEN args.AvailabilityZone ELSE "az1",
     PreferredMaintenanceWindow |->
        IF Has(args, "PreferredMaintenanceWindow") THEN args.PreferredMaintenanceWindow
        ELSE "mon:22:00-mon:23:15",
     TagList |-> IF Has(args, "Tags") THEN args.Tags ELSE <<>>]

\* the tags of the resource after remove_tags_from_resource(TagKeys=keys)
RemoteRemoveTags(taglist, keys) == SelectSeq(taglist, LAMBDA t : t.Key \notin Range(keys))
\* the tags of the resource after add_tags_to_resource(Tags=tags)
RemoteAddTags(taglist, tags) ==
    SelectSeq(taglist, LAMBDA t : t.Key \notin Range(TagKeys(tags))) \o tags

\* a reconciliation that removes only the keys the desired tags do not hold
remove_tag_keys_minimal(tr) ==
    TagKeys(SelectSeq(tr.TagList,
                      LAMBDA t : ~(Has(params, "tags") /\ t \in Range(TagList(params.tags)))))

\* TagKeys=[t['Key'] for t in tags_result['TagList']]
remove_tag_keys(tr) == TagKeys(tr.TagList)

\* a ClientError of a call made on the existing instance: the not-found
\* code enters the creation branch, any other code is fatal
instance_client_error(o, args) ==
    IF o = "DBInstanceNotFound"
    THEN /\ remote' = <<>>
         /\ api_args' = instance_not_found_args(args, params)
         /\ pc' = "create_db_instance_create"
         /\ UNCHANGED <<outcome, report>>
    ELSE /\ api_args' = args
         /\ fail_json([msg |-> o, api_args |-> args])
         /\ UNCHANGED remote

create_db_instance ==
    /\ pc = "create_db_instance"
    /\ \E o \in DescribeOutcomes :
          /\ found' = IF o = "ok" THEN "found"
                      ELSE IF o = NotFoundCode THEN "notfound" ELSE "error"
          /\ IF o = "ok"
             THEN /\ check' = <<[DBInstances |-> <<remote[1]>>]>>
                  /\ api_args' = instance_api_args(params)
                  /\ pc' = "create_db_instance_list_tags"
                  /\ UNCHANGED <<outcome, report>>
             ELSE IF o = "DBInstanceNotFound"
             THEN /\ api_args' = instance_not_found_args(instance_api_args(params), params)
                  /\ pc' = "create_db_instance_create"
                  /\ UNCHANGED <<check, outcome, report>>
             ELSE /\ api_args' = instance_api_args(params)
                  /\ fail_json([msg |-> o, api_args |-> api_args'])
                  /\ UNCHANGED check
    /\ UNCHANGED <<module, params, remote, result, tags_result, wait_timeout, deadline,
                   ready, now, polls, calls, inv, prev>>
    /\ UNCHANGED last_poll

\* the instance exists: modify_args is empty, the result is the described
\* instance; then list_tags_for_resource
create_db_instance_list_tags ==
    /\ pc = "create_db_instance_list_tags"
    /\ IF Len(check[1].DBInstances) # 1
       THEN /\ fail_json([msg |-> "Failed to retrieve details for existing database instance"])
            /\ UNCHANGED <<api_args, result, tags_result, calls, remote>>
       ELSE LET instance == check[1].DBInstances[1]
                modify_args_ == Empty
            IN /\ IF modify_args_ # Empty
                  THEN calls' = Append(Append(calls,
                            Call("modify_db_instance",
                                 Put(modify_args_, "DBInstanceIdentifier", params.instance_id))),
                            Call("list_tags_for_resource",
                                 [ResourceName |-> instance.DBInstanceArn]))
                  ELSE calls' = Append(calls, Call("list_tags_for_resource",
                                                  [ResourceName |-> instance.DBInstanceArn]))
               /\ result' = <<[DBInstance |-> instance]>>
               /\ \E o \in CallOutcomes :
                     IF o = "ok"
                     THEN /\ tags_result' = <<[TagList |-> remote[1].TagList]>>
                          /\ pc' = "create_db_instance_remove_tags"
                          /\ UNCHANGED <<api_args, remote, outcome, report>>
                     ELSE /\ instance_client_error(o, api_args)
                          /\ UNCHANGED tags_result
    /\ UNCHANGED <<module, params, check, wait_timeout, deadline, ready, now, polls,
                   found, inv, prev>>
    /\ UNCHANGED last_poll

\* if 'TagList' in tags_result: remove_tags_from_resource
create_db_instance_remove_tags ==
    /\ pc = "create_db_instance_remove_tags"
    /\ IF Has(tags_result[1], "TagList")
       THEN /\ calls' = Append(calls, Call("remove_tags_from_resource",
                    [ResourceName |-> check[1].DBInstances[1].DBInstanceArn,
                     TagKeys |-> remove_tag_keys(tags_result[1])]))
            /\ \E o \in CallOutcomes :
                  IF o = "ok"
                  THEN /\ remote' = <<[remote[1] EXCEPT !.TagList =
                              RemoteRemoveTags(@, remove_tag_keys(tags_result[1]))]>>
                       /\ pc' = IF Bound(instance_tags(params))
                                THEN "create_db_instance_add_tags"
                                ELSE "create_db_instance_wait"
                       /\ UNCHANGED <<api_args, outcome, report>>
                  ELSE instance_client_error(o, api_args)
       ELSE /\ pc' = "create_db_instance_wait"
            /\ UNCHANGED <<calls, remote, api_args, outcome, report>>
    /\ UNCHANGED <<module, params, check, result, tags_result, wait_timeout, deadline,
                   ready, now, polls, found, inv, prev>>
    /\ UNCHANGED last_poll

\* if tags is not None: api_args['Tags'] = tags; add_tags_to_resource
create_db_instance_add_tags ==
    /\ pc = "create_db_instance_add_tags"
    /\ LET tags == instance_tags(params)[1]
           args == Put(api_args, "Tags", tags)
       IN /\ calls' = Append(calls, Call("add_tags_to_resource",
                    [ResourceName |-> check[1].DBInstances[1].DBInstanceArn,
                     Tags |-> tags]))
          /\ \E o \in CallOutcomes :
                IF o = "ok"
                THEN /\ remote' = <<[remote[1] EXCEPT !.TagList = RemoteAddTags(@, tags)]>>
                     /\ api_args' = args
                     /\ pc' = "create_db_instance_wait"
                     /\ UNCHANGED <<outcome, report>>
                ELSE instance_client_error(o, args)
    /\ UNCHANGED <<module, params, check, result, tags_result, wait_timeout, deadline,
                   ready, now, polls, found, inv, prev>>
    /\ UNCHANGED last_poll

\* the instance does not exist: create it
create_db_instance_create ==
    /\ pc = "create_db_instance_create"
    /\ calls' = Append(calls, Call("create_db_instance", api_args))
    /\ \E o \in ProvisionOutcomes :
          IF o = "ok"
          THEN /\ remote' = <<RemoteCreateInstance(api_args)>>
               /\ result' = <<[DBInstance |-> remote'[1]]>>
               /\ pc' = "create_db_instance_wait"
               /\ UNCHANGED <<outcome, report>>
          ELSE /\ fail_json([msg |-> o, api_args |-> api_args])
               /\ UNCHANGED <<remote, result>>
    /\ UNCHANGED <<module, params, api_args, check, tags_result, wait_timeout, deadline,
                   ready, now, polls, found, inv, prev>>
    /\ UNCHANGED last_poll

\* if params['wait']: the deadline is computed once; otherwise exit
create_db_instance_wait ==
    /\ pc = "create_db_instance_wait"
    /\ IF params.wait
       THEN /\ deadline' = now + wait_timeout
            /\ ready' = FALSE
            /\ pc' = "create_db_instance_loop"
            /\ UNCHANGED <<outcome, report>>
       ELSE /\ exit_json([result |-> result[1]])
            /\ UNCHANGED <<deadline, ready>>
    /\ UNCHANGED <<module, params, remote, api_args, check, result, tags_result,
                   wait_timeout, now, polls, calls, found, inv, prev>>
    /\ UNCHANGED last_poll

\* one turn of the loop: describe, test the status, sleep when not ready
create_db_instance_poll ==
    /\ pc = "create_db_instance_loop"
    /\ ~ready /\ deadline > now
    /\ \E d \in CallDurations, o \in PollOutcomes :
          LET t == now + d
              resp == [DBInstances |-> <<[remote[1] EXCEPT !.DBInstanceStatus = o[2]]>>]
              isready == /\ o[1] = "ok"
                         /\ Len(resp.DBInstances) = 1
                         /\ Lower(resp.DBInstances[1].DBInstanceStatus) = "available"
          IN /\ polls' = polls + 1
             /\ last_poll' = IF o[1] = "ok" THEN "ok" ELSE o[2]
             /\ check' = IF o[1] = "ok" THEN <<resp>> ELSE check
             /\ remote' = IF o[1] = "ok" THEN <<resp.DBInstances[1]>> ELSE remote
             /\ ready' = isready
             /\ now' = IF isready THEN t ELSE t + SleepAfter(t, polls + 1)
    /\ UNCHANGED <<module, params, pc, api_args, result, tags_result, wait_timeout,
                   deadline, calls, found, outcome, report, inv, prev>>

\* after the loop: the timeout test, then exit
create_db_instance_exit ==
    /\ pc = "create_db_instance_loop"
    /\ ~(~ready /\ deadline > now)
    /\ IF deadline <= now
       THEN IF ~Bound(check)
            THEN raise("UnboundLocalError")
            ELSE fail_json([msg |-> "Timed out waiting for DB instance to become available",
                            instance |-> IF Len(check[1].DBInstances) = 1
                                         THEN <<check[1].DBInstances[1]>> ELSE <<>>])
       ELSE exit_json([result |-> result[1]])
    /\ UNCHANGED <<module, params, remote, api_args, check, result, tags_result,
                   wait_timeout, deadline, ready, now, polls, calls, found, inv, prev>>
    /\ UNCHANGED last_poll

(* ------------------------- the next invocation ------------------------ *)
\* the same task is run again, in a new process, against the remote as the
\* previous invocation left it
invoke_again ==
    /\ pc = "done"
    /\ inv < MaxInvocations
    /\ inv' = inv + 1
    /\ prev' = [calls |-> calls, outcome |-> outcome]
    /\ pc' = "main"
    /\ api_args' = Empty
    /\ check' = <<>>
    /\ result' = <<>>
    /\ tags_result' = <<>>
    /\ wait_timeout' = params.wait_timeout
    /\ deadline' = 0
    /\ ready' = FALSE
    /\ now' = 0
    /\ polls' = 0
    /\ calls' = <<>>
    /\ found' = "none"
    /\ outcome' = "none"
    /\ report' = Empty
    /\ last_poll' = "none"
    /\ UNCHANGED <<module, params, remote>>

Next ==
    \/ main_cluster
    \/ update_password \/ update_password_poll \/ update_password_exit
    \/ start_cluster \/ start_cluster_poll \/ start_cluster_exit
    \/ terminate_cluster \/ terminate_cluster_delete
    \/ create_cluster \/ create_cluster_modify \/ create_cluster_provision
    \/ create_cluster_wait \/ create_cluster_poll \/ create_cluster_exit
    \/ main_instance
    \/ terminate_db_instance \/ terminate_db_instance_delete
    \/ terminate_db_instance_waiter
    \/ create_db_instance \/ create_db_instance_list_tags
    \/ create_db_instance_remove_tags \/ create_db_instance_add_tags
    \/ create_db_instance_create
    \/ create_db_instance_wait \/ create_db_instance_poll \/ create_db_instance_exit
    \/ invoke_again

Spec == Init /\ [][Next]_vars

\* the positions of the four poll loops
PollLoops == {"create_cluster_loop", "create_db_instance_loop",
              "start_cluster_loop", "update_password_loop"}
\* a process in a poll loop goes on to its next turn or leaves the loop: the
\* loops are sequential code, and every describe call and every sleep returns
LoopStep == pc \in PollLoops /\ Next
LiveSpec == Spec /\ WF_vars(LoopStep)

(* ====================================================================== *)
(*                               properties                               *)
(* ====================================================================== *)
Ops(cs) == [i \in DOMAIN cs |-> cs[i].op]
CallsOf(op) == SelectSeq(calls, LAMBDA c : c.op = op)
Forced == Has(params, "force_update_password") /\ params.force_update_password = TRUE
\* the invocation runs create_cluster / create_db_instance
ClusterConverge == module = "cluster" /\ ~Forced /\ params.state = "present"
InstanceConverge == module = "instance" /\ params.state = "present"
GroupIds(cluster) ==
    [i \in DOMAIN cluster.VpcSecurityGroups |-> cluster.VpcSecurityGroups[i].VpcSecurityGroupId]
Count(x, s) == Cardinality({i \in DOMAIN s : s[i] = x})
\* two lists hold the same ids, in any order
SameIds(s, t) ==
    /\ Len(s) = Len(t)
    /\ \A x \in Range(s) \cup Range(t) : Count(x, s) = Count(x, t)

(* ------------------------------- C1 ----------------------------------- *)
\* the cluster c holds every attribute the request args carried
Reflects(c, args) ==
    /\ Has(args, "AvailabilityZones") => c.AvailabilityZones = args.AvailabilityZones
    /\ Has(args, "EngineVersion") => c.EngineVersion = args.EngineVersion
    /\ Has(args, "Port") => c.Port = args.Port
    /\ Has(args, "VpcSecurityGroupIds") => GroupIds(c) = args.VpcSecurityGroupIds
    /\ Has(args, "DBClusterParameterGroupName") =>
          c.DBClusterParameterGroup = args.DBClusterParameterGroupName
    /\ Has(args, "Tags") => c.TagList = args.Tags

\* the second create_cluster invocation has described the cluster, the first
\* one succeeded, and the cluster is as the first one's last request left it
SecondConvergeOnReflectingRemote ==
    /\ ClusterConverge
    /\ inv = 2
    /\ prev.outcome = "exit_json"
    /\ found = "found"
    /\ pc \in {"create_cluster_wait", "create_cluster_loop", "done"}
    /\ prev.calls # <<>> =>
          Reflects(check[1].DBClusters[1], prev.calls[Len(prev.calls)].args)

\* C1: cluster converge is idempotent: a second create_cluster invocation
\* with the same desired state, on a remote that describes the cluster as the
\* first invocation's request left it, issues no create, restore or modify
\* call and returns the described cluster.
C1_SecondConvergeUnchanged ==
    SecondConvergeOnReflectingRemote =>
        /\ calls = <<>>
        /\ result = <<[DBCluster |-> check[1].DBClusters[1]]>>

\* the same, for the tasks that supply no cluster_parameter_group
C1_SecondConvergeUnchangedWithoutGroup ==
    (SecondConvergeOnReflectingRemote /\ ~Has(params, "cluster_parameter_group")
     /\ pc = "create_cluster_wait") =>
        /\ calls = <<>>
        /\ result = <<[DBCluster |-> check[1].DBClusters[1]]>>

(* ------------------------------- C2 ----------------------------------- *)
\* C2: when create_cluster finds the cluster missing it issues exactly one
\* provisioning call: the restore call iff snapshot_arn is supplied, else the
\* create call; the create request carries no snapshot identifier and the
\* restore request no master username or password.
C2_OneProvisioningCall ==
    (ClusterConverge /\ found = "notfound") =>
        IF pc = "create_cluster_provision"
        THEN calls = <<>>
        ELSE /\ Len(calls) = 1
             /\ IF Has(params, "snapshot_arn")
                THEN /\ calls[1].op = "restore_db_cluster_from_snapshot"
                     /\ calls[1].args.SnapshotIdentifier = params.snapshot_arn
                     /\ ~Has(calls[1].args, "MasterUsername")
                     /\ ~Has(calls[1].args, "MasterUserPassword")
                ELSE /\ calls[1].op = "create_db_cluster"
                     /\ ~Has(calls[1].args, "SnapshotIdentifier")

C2_Witness ==
    /\ ClusterConverge /\ found = "notfound" /\ pc = "done" /\ outcome = "exit_json"
    /\ Has(params, "snapshot_arn")
    /\ Has(params, "master_username") /\ Has(params, "master_password")
    /\ Ops(calls) = <<"restore_db_cluster_from_snapshot">>

(* ------------------------------- C3 ----------------------------------- *)
\* C3: with force_update_password set, the invocation issues exactly one
\* modify_db_cluster call, which carries the identifier, ApplyImmediately and
\* the master password and nothing else, and no create, restore, delete or
\* start call, whatever state is and whether or not the cluster exists.
C3_ForcedPasswordOnly ==
    (module = "cluster" /\ Forced) =>
        IF pc \in {"main", "update_password"}
        THEN calls = <<>>
        ELSE calls = << [op |-> "modify_db_cluster",
                         args |-> [DBClusterIdentifier |-> params.cluster_id,
                                   ApplyImmediately |-> TRUE,
                                   MasterUserPassword |-> params.master_password]] >>

C3_Witness ==
    /\ module = "cluster" /\ Forced
    /\ params.state = "present" /\ Has(params, "snapshot_arn")
    /\ inv = 1 /\ pc = "done" /\ outcome = "exception"
    /\ Len(calls) = 1

(* ------------------------------- C4 ----------------------------------- *)
\* every non-tag attribute the task supplies equals the described one
NonTagAttributesMatch(c) ==
    /\ Has(params, "availability_zones") => c.AvailabilityZones = params.availability_zones
    /\ Has(params, "engine_version") => c.EngineVersion = params.engine_version
    /\ Has(params, "port") => c.Port = params.port
    /\ Has(params, "vpc_security_group_ids") =>
          SameIds(GroupIds(c), params.vpc_security_group_ids)
    /\ Has(params, "cluster_parameter_group") =>
          c.DBClusterParameterGroup = params.cluster_parameter_group

\* C4: in create_cluster on an existing cluster the tags never cause a
\* mutating call: no tag add/remove call is issued, a modify request never
\* contains Tags, and when all non-tag attributes match no call is issued
\* (check holds the first description until the first poll).
C4_TagsNeverMutate ==
    (ClusterConverge /\ found = "found") =>
        /\ \A i \in DOMAIN calls :
              /\ calls[i].op \notin {"add_tags_to_resource", "remove_tags_from_resource"}
              /\ calls[i].op = "modify_db_cluster" => ~Has(calls[i].args, "Tags")
        /\ (polls = 0 /\ NonTagAttributesMatch(check[1].DBClusters[1])) => calls = <<>>

C4_Witness ==
    /\ ClusterConverge /\ found = "found" /\ pc = "create_cluster_wait"
    /\ Has(params, "tags")
    /\ TagList(params.tags) # check[1].DBClusters[1].TagList
    /\ NonTagAttributesMatch(check[1].DBClusters[1])
    /\ calls = <<>>

(* ------------------------------- C5 ----------------------------------- *)
\* a convergence pass on an existing instance whose calls all succeeded
InstancePassDone ==
    /\ InstanceConverge /\ found = "found"
    /\ pc = "create_db_instance_wait"
    /\ CallsOf("create_db_instance") = <<>>

ListedKeys == [i \in DOMAIN tags_result[1].TagList |-> tags_result[1].TagList[i].Key]
ListTagsCall ==
    [op |-> "list_tags_for_resource",
     args |-> [ResourceName |-> check[1].DBInstances[1].DBInstanceArn]]
RemoveTagsCall ==
    [op |-> "remove_tags_from_resource",
     args |-> [ResourceName |-> check[1].DBInstances[1].DBInstanceArn,
               TagKeys |-> ListedKeys]]
AddTagsCall ==
    [op |-> "add_tags_to_resource",
     args |-> [ResourceName |-> check[1].DBInstances[1].DBInstanceArn,
               Tags |-> [i \in DOMAIN params.tags |->
                            [Key |-> params.tags[i][1], Value |-> params.tags[i][2]]]]]

\* C5 as stated: every convergence pass on an existing instance issues
\* list-tags, remove-tags for all listed keys, add-tags for the desired tags.
C5_ListRemoveAddAlways ==
    InstancePassDone => Ops(calls) = <<"list_tags_for_resource",
                                       "remove_tags_from_resource",
                                       "add_tags_to_resource">>

\* C5 amended: a convergence pass on an existing instance issues list-tags,
\* then remove-tags for all listed keys, then, when tags is not None, add-tags
\* for the full desired tag set, also when the desired tags equal the current
\* ones; with tags None it issues list-tags and remove-tags only.  Until the
\* pass is done its calls are a prefix of that sequence.
C5_ListRemoveThenAddIfTags ==
    (InstanceConverge /\ found = "found" /\ CallsOf("create_db_instance") = <<>>
     /\ pc # "create_db_instance") =>
        /\ pc = "create_db_instance_list_tags" => calls = <<>>
        /\ pc = "create_db_instance_remove_tags" => calls = <<ListTagsCall>>
        /\ pc = "create_db_instance_add_tags" => calls = <<ListTagsCall, RemoveTagsCall>>
        /\ pc = "create_db_instance_wait" =>
              calls = IF Has(params, "tags")
                      THEN <<ListTagsCall, RemoveTagsCall, AddTagsCall>>
                      ELSE <<ListTagsCall, RemoveTagsCall>>

\* the desired tags equal the current tags, and all three calls were issued
C5_Witness ==
    /\ InstancePassDone
    /\ Has(params, "tags")
    /\ TagList(params.tags) = tags_result[1].TagList
    /\ tags_result[1].TagList # <<>>
    /\ Len(calls) = 3

(* ------------------------------- C6 ----------------------------------- *)
\* C6: the differ compares security groups as an unordered collection: when
\* the described and the desired list hold the same group ids in any order,
\* the modify request holds no VpcSecurityGroupIds.
C6_GroupOrderIgnored ==
    (ClusterConverge /\ found = "found" /\ polls = 0
     /\ Has(params, "vpc_security_group_ids")
     /\ SameIds(GroupIds(check[1].DBClusters[1]), params.vpc_security_group_ids)) =>
        \A i \in DOMAIN calls :
            calls[i].op = "modify_db_cluster" => ~Has(calls[i].args, "VpcSecurityGroupIds")

\* the two lists differ in order, and a modify request for another attribute
\* was issued without them
C6_Witness ==
    /\ ClusterConverge /\ found = "found" /\ pc = "create_cluster_wait"
    /\ Has(params, "vpc_security_group_ids")
    /\ GroupIds(check[1].DBClusters[1]) # params.vpc_security_group_ids
    /\ SameIds(GroupIds(check[1].DBClusters[1]), params.vpc_security_group_ids)
    /\ Ops(calls) = <<"modify_db_cluster">>
    /\ ~Has(calls[1].args, "VpcSecurityGroupIds")

(* ------------------------------- C7 ----------------------------------- *)
\* the invocation runs terminate_cluster / terminate_db_instance
Terminate ==
    \/ module = "cluster" /\ ~Forced /\ params.state = "absent"
    \/ module = "instance" /\ params.state = "absent"

\* C7: delete on an identifier the remote reports as not found ends in
\* success and issues no delete call.
C7_DeleteAbsentSucceeds ==
    (Terminate /\ found = "notfound") =>
        /\ calls = <<>>
        /\ pc = "done"
        /\ outcome = "exit_json"

C7_Witness ==
    /\ Terminate /\ found = "notfound"
    /\ pc = "done" /\ outcome = "exit_json" /\ report = [result |-> TRUE]
    /\ calls = <<>>

(* ---------------------------- C8, C9, C10 ----------------------------- *)
TimedOut ==
    /\ outcome = "fail_json"
    /\ Has(report, "msg")
    /\ report.msg \in {"Timed out waiting for DB cluster to become available",
                       "Timed out waiting for DB instance to become available"}

\* a create_cluster / create_db_instance invocation that ended after its
\* wait loop (the failures before the loop carry api_args or the
\* "Failed to retrieve" message)
EndedAfterWait ==
    /\ ClusterConverge \/ InstanceConverge
    /\ params.wait
    /\ pc = "done"
    /\ ~Has(report, "api_args")
    /\ outcome = "fail_json" => TimedOut

\* C8: in the wait loop of create_cluster and create_db_instance, when the
\* status check is true on poll N+1 after N false polls, the wait ends as
\* ready and the invocation exits successfully: an invocation whose last poll
\* observed status available is never reported as timed out.
C8_ReadyNeverTimedOut ==
    (EndedAfterWait /\ ready) => outcome = "exit_json"

\* C9: in the wait loop of create_cluster and create_db_instance, when the
\* resource never reaches status available the invocation ends with a
\* timed-out failure, and a timed-out failure is reported only when the clock
\* has reached the deadline.
C9_NotReadyEndsTimedOut ==
    /\ (EndedAfterWait /\ ~ready) => TimedOut
    /\ TimedOut => now >= deadline

\* C9 holds of the invocations in which a describe call has succeeded
C9_NotReadyEndsTimedOutOnceDescribed ==
    /\ (EndedAfterWait /\ ~ready /\ Bound(check)) => TimedOut
    /\ TimedOut => now >= deadline

\* C10: a wait timeout of zero is never treated as waiting zero seconds: in
\* every waiting operation a wait_timeout of 0 is replaced by the operation's
\* default before the deadline is computed, so at least one status poll
\* happens before a timeout can be reported.
C10_ZeroTimeoutPollsOnce ==
    /\ TimedOut => polls >= 1
    /\ (pc \in {"create_cluster_loop", "create_db_instance_loop",
                "start_cluster_loop", "update_password_loop"}
        /\ params.wait_timeout = 0 /\ polls = 0) => deadline > now

(* ------------------------------- C11 ---------------------------------- *)
\* the invocation issued the restore call
Restored == CallsOf("restore_db_cluster_from_snapshot") # <<>>

\* C11: in create_cluster the wait deadline uses the caller's wait_timeout
\* whenever it is non-zero, on every branch; when it is zero the deadline uses
\* 600 seconds on the create and modify/unchanged branches and 3600 seconds on
\* the restore branch (the deadline is start time plus that timeout).
C11_DeadlineFromCallerOrBranchDefault ==
    (ClusterConverge /\ pc = "create_cluster_loop") =>
        LET timeout == IF params.wait_timeout # 0 THEN params.wait_timeout
                       ELSE IF Restored THEN RestoreWaitTimeout
                       ELSE DefaultWaitTimeout
        IN /\ polls = 0 => deadline = now + timeout
           /\ deadline = timeout

\* a restore with wait_timeout 0 waits for up to an hour
C11_Witness ==
    /\ ClusterConverge /\ pc = "create_cluster_loop" /\ polls = 0
    /\ params.wait_timeout = 0
    /\ Restored
    /\ deadline = now + RestoreWaitTimeout

\* a caller's timeout overrides the default of the restore branch
C11_WitnessCallerTimeout ==
    /\ ClusterConverge /\ pc = "create_cluster_loop" /\ polls = 0
    /\ params.wait_timeout # 0
    /\ Restored
    /\ deadline = now + params.wait_timeout

(* ------------------------------- C12 ---------------------------------- *)
\* an invocation that ended after one of the four poll loops: create_cluster
\* and create_db_instance with wait, start_cluster and update_password (which
\* end in exit_json only after their loop)
EndedAfterPolling ==
    /\ pc = "done"
    /\ \/ EndedAfterWait
       \/ /\ module = "cluster"
          /\ Forced \/ params.state = "running"
          /\ outcome = "exit_json"

\* C12: every operation that polls ends, when its deadline elapses without
\* the resource becoming available, in a timed-out failure that carries the
\* last observed resource state; none reports success then.
C12_DeadlineElapsedEndsTimedOut ==
    (EndedAfterPolling /\ ~ready /\ now >= deadline) =>
        /\ TimedOut
        /\ IF module = "cluster"
           THEN Has(report, "cluster") /\ report.cluster = <<check[1].DBClusters[1]>>
           ELSE Has(report, "instance") /\ report.instance = <<check[1].DBInstances[1]>>

\* the same, for create_cluster and create_db_instance once a describe call
\* of the invocation has succeeded
C12_DeadlineElapsedEndsTimedOutInConverge ==
    (EndedAfterWait /\ Bound(check) /\ ~ready /\ now >= deadline) =>
        /\ TimedOut
        /\ IF module = "cluster"
           THEN Has(report, "cluster") /\ report.cluster = <<check[1].DBClusters[1]>>
           ELSE Has(report, "instance") /\ report.instance = <<check[1].DBInstances[1]>>

(* ------------------------------- C13 ---------------------------------- *)
\* the error codes that are neither transient nor not-found
PermanentCodes == OtherCodes \ {"Throttling"}

\* C13: during polling, a permanent error from the describe call aborts the
\* poll immediately with a failure: no further describe call follows it and
\* the invocation does not go on to report ready or timed out.
C13_PermanentPollErrorAborts ==
    last_poll \in PermanentCodes =>
        /\ pc = "done"
        /\ outcome = "fail_json"
        /\ ~TimedOut

(* ------------------------------- C14 ---------------------------------- *)
\* C14: on the cluster converge path (create_cluster, force_update_password
\* not set) a modify_db_cluster request never contains the master password
\* or the master username, also when the task supplies them.
C14_ModifyWithoutCredentials ==
    ClusterConverge =>
        \A i \in DOMAIN calls :
            calls[i].op = "modify_db_cluster" =>
                /\ ~Has(calls[i].args, "MasterUserPassword")
                /\ ~Has(calls[i].args, "MasterUsername")

\* the task supplies both credentials and the existing cluster was modified
C14_Witness ==
    /\ ClusterConverge /\ found = "found"
    /\ Has(params, "master_password") /\ Has(params, "master_username")
    /\ pc = "done" /\ outcome = "exit_json"
    /\ Ops(calls) = <<"modify_db_cluster">>

(* ------------------------------- C15 ---------------------------------- *)
\* C15: lenient delete: in terminate_cluster and terminate_db_instance any
\* remote error raised by the describe or the delete call ends the invocation
\* in success, and no second delete call is attempted.  (An error of the
\* describe call ends it at once, with no call issued; an invocation ends
\* otherwise than in success only when the db_instance_deleted waiter, which
\* follows a delete call that succeeded, gives up.)
C15_LenientDelete ==
    Terminate =>
        /\ Len(calls) <= 1
        /\ found \in {"notfound", "error"} =>
              /\ pc = "done"
              /\ outcome = "exit_json"
              /\ calls = <<>>
        /\ (pc = "done" /\ outcome # "exit_json") =>
              /\ module = "instance"
              /\ Ops(calls) = <<"delete_db_instance">>
              /\ report = [exception |-> "WaiterError"]

\* the delete call on the existing instance raised an error other than
\* not-found (the remote still holds the instance) and success was reported
C15_Witness ==
    /\ Terminate /\ module = "instance" /\ found = "found"
    /\ Ops(calls) = <<"delete_db_instance">>
    /\ pc = "done" /\ outcome = "exit_json"
    /\ Bound(remote)

\* the describe call raised an error other than not-found
C15_WitnessDescribeError ==
    /\ Terminate /\ found = "error"
    /\ pc = "done" /\ outcome = "exit_json"

(* ------------------------------- C16 ---------------------------------- *)
ProvisionOps == {"create_db_cluster", "restore_db_cluster_from_snapshot", "create_db_instance"}
\* the invocation issued a create or restore call
Provisioned == \E i \in DOMAIN calls : calls[i].op \in ProvisionOps

\* C16: in create_cluster and create_db_instance a create or restore call is
\* issued only when the initial describe failed with not-found: when it
\* succeeded no create or restore call is issued in that invocation, also
\* when a later modify or tag call fails with not-found.
C16_ProvisionOnlyAfterInitialNotFound ==
    ((ClusterConverge \/ InstanceConverge) /\ Provisioned) => found = "notfound"

(* ------------------------------- C17 ---------------------------------- *)
\* the parameter that supplies the desired value of a settable attribute
SettableParam ==
    [EngineVersion |-> "engine_version",
     Port |-> "port",
     VpcSecurityGroupIds |-> "vpc_security_group_ids",
     DBClusterParameterGroupName |-> "cluster_parameter_group"]

\* the settable attributes whose desired value is supplied and differs from
\* the one of the described cluster c
SettableDiff(c) ==
    {k \in DOMAIN SettableParam :
        /\ Has(params, SettableParam[k])
        /\ CASE k = "EngineVersion" -> c.EngineVersion # params.engine_version
             [] k = "Port" -> c.Port # params.port
             [] k = "VpcSecurityGroupIds" ->
                   ~SameIds(GroupIds(c), params.vpc_security_group_ids)
             [] OTHER -> c.DBClusterParameterGroup # params.cluster_parameter_group}

\* the modify request for the settable attributes keys
SettableRequest(keys) ==
    [k \in keys \cup {"DBClusterIdentifier"} |->
        IF k = "DBClusterIdentifier" THEN params.cluster_id
        ELSE params[SettableParam[k]]]

\* create_cluster has described the cluster and computed its plan (check
\* holds that description until the first poll)
ClusterPlanned ==
    /\ ClusterConverge /\ found = "found"
    /\ pc # "create_cluster_modify"
    /\ polls = 0

\* C17: in create_cluster on an existing cluster the modify request contains
\* exactly the attributes among engine version, port, security groups and
\* parameter group whose desired value is supplied and differs from the
\* observed one, and no other attribute (not availability zones);
\* modify_db_cluster is called if and only if that set is non-empty.
C17_ModifyExactlySettableDiff ==
    ClusterPlanned =>
        LET keys == SettableDiff(check[1].DBClusters[1])
        IN IF keys = {}
           THEN CallsOf("modify_db_cluster") = <<>>
           ELSE /\ calls # <<>>
                /\ calls[1] = Call("modify_db_cluster", SettableRequest(keys))
                /\ Len(CallsOf("modify_db_cluster")) = 1

\* the same, for the tasks that supply no availability_zones
C17_ModifyExactlySettableDiffWithoutZones ==
    (ClusterPlanned /\ ~Has(params, "availability_zones")) =>
        LET keys == SettableDiff(check[1].DBClusters[1])
        IN IF keys = {}
           THEN CallsOf("modify_db_cluster") = <<>>
           ELSE /\ calls # <<>>
                /\ calls[1] = Call("modify_db_cluster", SettableRequest(keys))
                /\ Len(CallsOf("modify_db_cluster")) = 1

(* ------------------------------- C18 ---------------------------------- *)
\* C18: when the plan for an existing cluster is empty, create_cluster
\* returns the observed description exactly as the describe call returned
\* it: the observed state is not changed in place, the returned record has
\* the fields and values of the described one (with no call issued and no
\* poll made the remote still holds the cluster as it was described).
C18_UnchangedReturnsDescribed ==
    (ClusterPlanned /\ calls = <<>> /\ pc = "create_cluster_wait") =>
        /\ check[1].DBClusters[1] = remote[1]
        /\ result = <<[DBCluster |-> remote[1]]>>

(* ------------------------------- C19 ---------------------------------- *)
MutationOps == ProvisionOps \cup {"modify_db_cluster", "modify_db_instance"}
LastCall == calls[Len(calls)]

\* this step issues a create, restore or modify call that fails with another
\* error than not-found: the remote is as it was (a call that succeeds changes
\* the resource, one that answers not-found finds it deleted)
MutationCallFails ==
    /\ ClusterConverge \/ InstanceConverge
    /\ Len(calls') = Len(calls) + 1
    /\ calls'[Len(calls')].op \in MutationOps
    /\ remote' = remote

\* the invocation ended in the failure of a create, restore or modify call
FailedMutation ==
    /\ ClusterConverge \/ InstanceConverge
    /\ pc = "done" /\ outcome = "fail_json" /\ Has(report, "api_args")
    /\ calls # <<>>
    /\ LastCall.op \in MutationOps

\* C19 as stated: a failure of a create, restore or modify call is fatal:
\* the invocation ends in a failure outcome that carries the parameters of
\* the attempted request, the call is not retried, no polling describe
\* follows and success is never reported.
C19_FailureCarriesRequest ==
    /\ [](FailedMutation =>
            /\ report.api_args = LastCall.args
            /\ Len(CallsOf(LastCall.op)) = 1
            /\ polls = 0)
    /\ [][MutationCallFails =>
            (pc' = "done" /\ outcome' = "fail_json" /\ Has(report', "api_args"))]_vars

\* C19 amended: a failure of a create, restore or modify call is fatal: the
\* invocation ends in a failure outcome that carries api_args, the call is
\* not retried, no polling describe follows and success is never reported.
\* api_args is the request of a failed create or restore call; for a failed
\* modify call it holds every attribute of the request but the identifier.
C19_FailureCarriesApiArgs ==
    /\ [](FailedMutation =>
            /\ IF LastCall.op = "modify_db_cluster"
               THEN \A k \in DOMAIN LastCall.args \ {"DBClusterIdentifier"} :
                       Has(report.api_args, k) /\ report.api_args[k] = LastCall.args[k]
               ELSE report.api_args = LastCall.args
            /\ Len(CallsOf(LastCall.op)) = 1
            /\ polls = 0)
    /\ [][MutationCallFails =>
            (pc' = "done" /\ outcome' = "fail_json" /\ Has(report', "api_args"))]_vars

\* a modify call failed and the report is not its request
C19_Witness ==
    /\ FailedMutation
    /\ LastCall.op = "modify_db_cluster"
    /\ report.api_args # LastCall.args

\* a restore call failed and the report is its request
C19_WitnessRestore ==
    /\ FailedMutation
    /\ LastCall.op = "restore_db_cluster_from_snapshot"
    /\ report.api_args = LastCall.args

(* ------------------------------- C20 ---------------------------------- *)
TagOps == {"list_tags_for_resource", "remove_tags_from_resource", "add_tags_to_resource"}

\* C20: in create_db_instance on an existing instance no modify_db_instance
\* and no create_db_instance call is ever issued; the only mutating calls are
\* the tag remove and tag add calls, and the result is the described instance.
C20_ExistingInstanceOnlyTagCalls ==
    (InstanceConverge /\ found = "found") =>
        /\ \A i \in DOMAIN calls : calls[i].op \in TagOps
        /\ Bound(result) =>
              /\ Bound(check)
              /\ polls = 0 => result = <<[DBInstance |-> check[1].DBInstances[1]]>>

\* the same, until a tag call answers not-found (the instance was deleted
\* after the describe)
C20_ExistingInstanceOnlyTagCallsWhileItExists ==
    (InstanceConverge /\ found = "found"
     /\ pc # "create_db_instance_create" /\ ~Provisioned) =>
        /\ \A i \in DOMAIN calls : calls[i].op \in TagOps
        /\ Bound(result) =>
              /\ Bound(check)
              /\ polls = 0 => result = <<[DBInstance |-> check[1].DBInstances[1]]>>

(* ------------------------------- C21 ---------------------------------- *)
\* the resource was created or restored in this invocation, the wait loop
\* has polled, and no describe call of the invocation ever succeeded
CreatedNeverDescribed ==
    /\ EndedAfterWait
    /\ Provisioned
    /\ polls >= 1
    /\ ~Bound(check)

\* C21: when the resource is created or restored in this invocation and
\* every describe call during the wait fails, create_cluster and
\* create_db_instance still end at the deadline in the timed-out failure,
\* with an absent last-observed resource, and do not terminate abnormally.
C21_NeverDescribedEndsTimedOut ==
    CreatedNeverDescribed =>
        /\ TimedOut
        /\ IF module = "cluster"
           THEN Has(report, "cluster") /\ report.cluster = <<>>
           ELSE Has(report, "instance") /\ report.instance = <<>>

(* ------------------------------- C22 ---------------------------------- *)
\* success, failure, or the failure of the process by an uncaught exception
TerminalOutcomes == {"exit_json", "fail_json", "exception"}

\* C22: every invocation that polls eventually terminates in exactly one
\* terminal outcome, provided the clock advances: each poll loop ends once
\* the status is available or the deadline has passed, whatever describe
\* results and errors the remote produces.
C22_PollingTerminates ==
    /\ (pc \in PollLoops) ~> (pc = "done" /\ outcome \in TerminalOutcomes)
    /\ [](pc \in PollLoops => outcome = "none")
    /\ [][(pc \in PollLoops /\ (ready \/ now >= deadline)) => pc' = "done"]_vars
    /\ [][polls' = polls + 1 => (~ready /\ now < deadline)]_vars
    /\ [][(pc = "done" /\ pc' = "done") => outcome' = outcome]_vars

\* an invocation ended after polls that saw an error and then a status that
\* was not available, at the deadline
C22_Witness ==
    /\ pc = "done" /\ outcome \in TerminalOutcomes
    /\ polls >= 2
    /\ last_poll = "ok" /\ ~ready
    /\ now >= deadline

(* ------------------------------- C23 ---------------------------------- *)
\* create_cluster / create_db_instance has made its mutate-or-unchanged
\* decision and its calls succeeded
AtWait == pc \in {"create_cluster_wait", "create_db_instance_wait"}

\* C23: when wait is not enabled, create_cluster and create_db_instance
\* issue no describe call after the initial one: the invocation ends right
\* after the mutate-or-unchanged decision with a success outcome and never
\* reports timed out (it ends otherwise only when the initial describe or a
\* mutating call failed, with that failure).
C23_NoWaitNoPoll ==
    /\ [](((ClusterConverge \/ InstanceConverge) /\ ~params.wait) =>
            /\ polls = 0
            /\ pc \notin PollLoops
            /\ ~TimedOut
            /\ (pc = "done" /\ outcome # "exit_json") =>
                  (outcome = "fail_json" /\ Has(report, "api_args")))
    /\ [][(AtWait /\ ~params.wait) =>
            (pc' = "done" /\ outcome' = "exit_json" /\ report' = [result |-> result[1]])]_vars

\* a cluster was created without wait: success with no poll, although the
\* cluster is still being created
C23_Witness ==
    /\ ClusterConverge /\ ~params.wait
    /\ pc = "done" /\ outcome = "exit_json"
    /\ Ops(calls) = <<"create_db_cluster">>
    /\ polls = 0
    /\ remote[1].Status = "creating"

====
